---- MODULE Spec2Model ----
(***************************************************************************)
(* festival-pipe.py: run() spawns the dictation engine through the shell   *)
(* with its stdout captured in a pipe, then loops forever over             *)
(*     output_str = await proc.stdout.readline(); print(output_str)        *)
(* main() drives run() with asyncio.run().                                 *)
(*                                                                         *)
(* The child and the pipe are the environment: the child writes bytes,     *)
(* closes its stdout, or the pipe breaks.  The task driving run() can be   *)
(* cancelled from outside while it is suspended in an await.               *)
(***************************************************************************)
EXTENDS Integers, Sequences, FiniteSets, TLC

\* ---- bounds ----
\* most bytes the child writes in one execution
MaxWritten == 4
\* how many end-of-stream reads the history variables are sure to record
MaxEofLogged == 2
\* most steps that other work on the event loop takes in one execution
MaxOtherSteps == 2

\* readlog and delivered stop growing at this length (the loop itself goes
\* on): every line the child can write fits, and MaxEofLogged values more
MaxLog == MaxWritten + MaxEofLogged

\* ---- data ----
NL == "\n"
Char == {"x", NL}
\* readline() at end of stream with an empty buffer returns b''
EOF == << >>

VARIABLES
    pc,            \* position of run(): spawn, read, await, print, done, raised, cancelled
    launch,        \* outcome of create_subprocess_shell: pending, ok, notfound, oserror
    child,         \* the child's stdout: none, running (open), closed (end of data)
    written,       \* every byte the child has written to its stdout, in order
    buffer,        \* bytes written and not yet taken by a readline()
    streamExc,     \* the stream carries an exception (pipe broke)
    output_str,    \* the local of run() holding the last readline() result
    readlog,       \* history: values returned by readline()
    delivered,     \* history: values print() was called with
    error,         \* the exception that left run(): none, LaunchError, StreamReadError, ConsumerError
    termRequested, \* a terminate/kill was sent to the child by the program
    pipeOpen,      \* the program holds the read end of the child's stdout
    otherSteps     \* history: steps other work on the event loop has taken

vars == <<pc, launch, child, written, buffer, streamExc, output_str,
          readlog, delivered, error, termRequested, pipeOpen, otherSteps>>

\* ---- the stream reader's line assembly ----
RECURSIVE FirstNL(_, _)
\* index of the first newline of s at or after i, 0 when there is none
FirstNL(s, i) ==
    IF i > Len(s) THEN 0
    ELSE IF s[i] = NL THEN i
    ELSE FirstNL(s, i + 1)

\* (variant: the read never waits, it polls)
ReadReadyBusy(buf, eof) == TRUE
\* a readline() on this buffer returns without (further) waiting: a whole
\* line is buffered, or the stream is at end of data
ReadReady(buf, eof) == eof \/ FirstNL(buf, 1) > 0

\* (variant: the returned line is left in the buffer)
readlineNoConsume(buf) ==
    LET i == FirstNL(buf, 1) IN
    IF i > 0 THEN [line |-> SubSeq(buf, 1, i), rest |-> buf]
    ELSE [line |-> buf, rest |-> << >>]
\* the value readline() returns and what stays buffered: through the first
\* newline, or at end of stream whatever is left (b'' when nothing is)
readline(buf) ==
    LET i == FirstNL(buf, 1) IN
    IF i > 0 THEN [line |-> SubSeq(buf, 1, i), rest |-> SubSeq(buf, i + 1, Len(buf))]
    ELSE [line |-> buf, rest |-> << >>]

\* history append; recording stops at MaxLog entries
Log(h, v) == IF Len(h) < MaxLog THEN Append(h, v) ELSE h

\* ---- the Supervisor state the spec names ----
SupState ==
    CASE pc = "spawn" -> "NotStarted"
      [] pc \in {"read", "await", "print"} -> "Running"
      [] pc = "done" -> "Exited"
      [] pc = "raised" -> "Failed"
      [] pc = "cancelled" -> "Stopped"

Init ==
    /\ pc = "spawn"
    /\ launch = "pending"
    /\ child = "none"
    /\ written = << >>
    /\ buffer = << >>
    /\ streamExc = FALSE
    /\ output_str = << >>
    /\ readlog = << >>
    /\ delivered = << >>
    /\ error = "none"
    /\ termRequested = FALSE
    /\ pipeOpen = FALSE
    /\ otherSteps = 0

\* ---- run() ----
\* create_subprocess_shell returns: the shell was started.  When the command
\* it is given names no executable ("notfound") the shell is the child; it
\* writes nothing to stdout and exits.
SpawnOk ==
    /\ pc = "spawn"
    /\ \E o \in {"ok", "notfound"} : launch' = o
    /\ child' = "running"
    /\ pipeOpen' = TRUE
    /\ pc' = "read"
    /\ UNCHANGED <<written, buffer, streamExc, output_str, readlog, delivered,
                   error, termRequested, otherSteps>>

\* create_subprocess_shell raises (the shell itself cannot be spawned); the
\* exception leaves run() and asyncio.run() re-raises it in main()
SpawnFail ==
    /\ pc = "spawn"
    /\ launch' = "oserror"
    /\ error' = "LaunchError"
    /\ pc' = "raised"
    /\ UNCHANGED <<child, written, buffer, streamExc, output_str, readlog,
                   delivered, termRequested, pipeOpen, otherSteps>>

\* readline() is called with nothing to return yet: the task suspends
Suspend ==
    /\ pc = "read"
    /\ ~streamExc
    /\ ~ReadReady(buffer, child = "closed")
    /\ pc' = "await"
    /\ UNCHANGED <<launch, child, written, buffer, streamExc, output_str,
                   readlog, delivered, error, termRequested, pipeOpen, otherSteps>>

\* (variant: the line is stripped of its newline before it is kept)
ReadReturnStripped ==
    /\ pc \in {"read", "await"}
    /\ ~streamExc
    /\ ReadReady(buffer, child = "closed")
    /\ LET r == readline(buffer) IN
        /\ output_str' = SelectSeq(r.line, LAMBDA c : c # NL)
        /\ buffer' = r.rest
        /\ readlog' = Log(readlog, r.line)
    /\ pc' = "print"
    /\ UNCHANGED <<launch, child, written, streamExc, delivered, error,
                   termRequested, pipeOpen, otherSteps>>
\* (variant: the loop is left when the read meets the end of the stream)
ReadReturnBreakOnEof ==
    /\ pc \in {"read", "await"}
    /\ ~streamExc
    /\ ReadReady(buffer, child = "closed")
    /\ LET r == readline(buffer) IN
        /\ output_str' = r.line
        /\ buffer' = r.rest
        /\ readlog' = Log(readlog, r.line)
        /\ pc' = IF r.line = EOF THEN "done" ELSE "print"
    /\ UNCHANGED <<launch, child, written, streamExc, delivered, error,
                   termRequested, pipeOpen, otherSteps>>
\* readline() returns a value, at once or after the wait
ReadReturn ==
    /\ pc \in {"read", "await"}
    /\ ~streamExc
    /\ ReadReady(buffer, child = "closed")
    /\ LET r == readline(buffer) IN
        /\ output_str' = r.line
        /\ buffer' = r.rest
        /\ readlog' = Log(readlog, r.line)
    /\ pc' = "print"
    /\ UNCHANGED <<launch, child, written, streamExc, delivered, error,
                   termRequested, pipeOpen, otherSteps>>

\* (variant: the exception is caught and the loop goes on with b'')
ReadRaiseSwallowed ==
    /\ pc \in {"read", "await"}
    /\ streamExc
    /\ output_str' = EOF
    /\ readlog' = Log(readlog, EOF)
    /\ pc' = "print"
    /\ UNCHANGED <<launch, child, written, buffer, streamExc, delivered,
                   error, termRequested, pipeOpen, otherSteps>>
\* (variant: a failed read starts the command over)
ReadRaiseRestart ==
    /\ pc \in {"read", "await"}
    /\ streamExc
    /\ streamExc' = FALSE
    /\ pc' = "spawn"
    /\ UNCHANGED <<launch, child, written, buffer, output_str, readlog,
                   delivered, error, termRequested, pipeOpen, otherSteps>>
\* readline() raises the stream's exception; run() has no handler, so the
\* exception leaves run() and asyncio.run() re-raises it in main()
ReadRaise ==
    /\ pc \in {"read", "await"}
    /\ streamExc
    /\ error' = "StreamReadError"
    /\ pc' = "raised"
    /\ UNCHANGED <<launch, child, written, buffer, streamExc, output_str,
                   readlog, delivered, termRequested, pipeOpen, otherSteps>>

\* (variant: the loop goes back to readline() without the print)
PrintLineSkipped ==
    /\ pc = "print"
    /\ pc' = "read"
    /\ UNCHANGED <<launch, child, written, buffer, streamExc, output_str,
                   readlog, delivered, error, termRequested, pipeOpen, otherSteps>>
\* print(output_str) returns; the loop goes back to readline()
PrintLine ==
    /\ pc = "print"
    /\ delivered' = Log(delivered, output_str)
    /\ pc' = "read"
    /\ UNCHANGED <<launch, child, written, buffer, streamExc, output_str,
                   readlog, error, termRequested, pipeOpen, otherSteps>>

\* print(output_str) raises (the program's own stdout is gone)
PrintLineRaise ==
    /\ pc = "print"
    /\ delivered' = Log(delivered, output_str)
    /\ error' = "ConsumerError"
    /\ pc' = "raised"
    /\ UNCHANGED <<launch, child, written, buffer, streamExc, output_str,
                   readlog, termRequested, pipeOpen, otherSteps>>

\* the task running run() is cancelled; CancelledError is thrown at the await
\* it is suspended in.  run() has no handler and no finally: nothing is sent
\* to the child and the pipe is not closed.
Cancel ==
    /\ pc \in {"spawn", "await"}
    /\ pc' = "cancelled"
    /\ UNCHANGED <<launch, child, written, buffer, streamExc, output_str,
                   readlog, delivered, error, termRequested, pipeOpen, otherSteps>>

\* ---- the child and the pipe ----
ChildWrite ==
    /\ child = "running"
    /\ launch = "ok"
    /\ Len(written) < MaxWritten
    /\ \E c \in Char :
        /\ written' = Append(written, c)
        /\ buffer' = Append(buffer, c)
    /\ UNCHANGED <<pc, launch, child, streamExc, output_str, readlog,
                   delivered, error, termRequested, pipeOpen, otherSteps>>

ChildClose ==
    /\ child = "running"
    /\ child' = "closed"
    /\ UNCHANGED <<pc, launch, written, buffer, streamExc, output_str,
                   readlog, delivered, error, termRequested, pipeOpen, otherSteps>>

StreamBreak ==
    /\ child = "running"
    /\ ~streamExc
    /\ streamExc' = TRUE
    /\ UNCHANGED <<pc, launch, child, written, buffer, output_str, readlog,
                   delivered, error, termRequested, pipeOpen, otherSteps>>

\* ---- the event loop of asyncio.run() ----
\* (variant: the other work reads a line from the child's stream)
OtherTaskStealsLine ==
    /\ pc \in {"spawn", "await"}
    /\ otherSteps < MaxOtherSteps
    /\ otherSteps' = otherSteps + 1
    /\ buffer' = IF ReadReady(buffer, child = "closed")
                 THEN readline(buffer).rest ELSE buffer
    /\ UNCHANGED <<pc, launch, child, written, streamExc, output_str, readlog,
                   delivered, error, termRequested, pipeOpen>>
\* (variant: the other work kills the child)
OtherTaskKillsChild ==
    /\ pc \in {"spawn", "await"}
    /\ otherSteps < MaxOtherSteps
    /\ otherSteps' = otherSteps + 1
    /\ termRequested' = (termRequested \/ child = "running")
    /\ child' = IF child = "running" THEN "closed" ELSE child
    /\ UNCHANGED <<pc, launch, written, buffer, streamExc, output_str, readlog,
                   delivered, error, pipeOpen>>
\* other work pending on the same event loop takes a step.  The loop is
\* single-threaded and cooperative: it runs something else only while run()
\* is suspended in an await.  proc and output_str are locals of run(): the
\* other work reaches neither the child nor its stream.
OtherTask ==
    /\ pc \in {"spawn", "await"}
    /\ otherSteps < MaxOtherSteps
    /\ otherSteps' = otherSteps + 1
    /\ UNCHANGED <<pc, launch, child, written, buffer, streamExc, output_str,
                   readlog, delivered, error, termRequested, pipeOpen>>

RunStep ==
    SpawnOk \/ SpawnFail \/ Suspend \/ ReadReturn \/ ReadRaise \/ PrintLine \/ PrintLineRaise

Next ==
    \/ SpawnOk
    \/ SpawnFail
    \/ Suspend
    \/ ReadReturn
    \/ ReadRaise
    \/ PrintLine
    \/ PrintLineRaise
    \/ Cancel
    \/ ChildWrite
    \/ ChildClose
    \/ StreamBreak
    \/ OtherTask

Spec == Init /\ [][Next]_vars

\* the event loop runs the task whenever it is ready to run
FairSpec == Spec /\ WF_vars(RunStep)

\* ---- what the child wrote, cut into lines ----
IsPrefix(s, t) == Len(s) <= Len(t) /\ SubSeq(t, 1, Len(s)) = s

RECURSIVE CompleteLines(_)
\* the newline-terminated lines of s, in order
CompleteLines(s) ==
    LET i == FirstNL(s, 1) IN
    IF i = 0 THEN << >>
    ELSE <<SubSeq(s, 1, i)>> \o CompleteLines(SubSeq(s, i + 1, Len(s)))

RECURSIVE Unterminated(_)
\* what follows the last newline of s
Unterminated(s) ==
    LET i == FirstNL(s, 1) IN
    IF i = 0 THEN s ELSE Unterminated(SubSeq(s, i + 1, Len(s)))

\* the lines written so far; bytes after the last newline make a line only
\* once the child has closed its output behind them
WrittenLines ==
    CompleteLines(written) \o
        (IF child = "closed" /\ Unterminated(written) # << >>
         THEN <<Unterminated(written)>> ELSE << >>)

IsLine(v) == v # EOF
Terminal == {"done", "raised", "cancelled"}

\* the child wrote whole lines, at least one, closed its output cleanly, and
\* nothing else ended the run
CleanExit ==
    /\ launch = "ok" /\ child = "closed" /\ ~streamExc
    /\ written # << >> /\ Unterminated(written) = << >>
    /\ error = "none" /\ pc # "cancelled"

\* C1: for a child that writes lines L1..Ln and closes its output cleanly,
\* the consumer invocations are exactly L1..Ln in order: at every moment they
\* are a prefix of L1..Ln (nothing added, no empty end-of-stream value), and
\* once a read has gone past Ln the Supervisor is Exited.
C1_CleanExitExactDelivery ==
    CleanExit =>
        /\ IsPrefix(delivered, CompleteLines(written))
        /\ (Len(readlog) > Len(CompleteLines(written)) => SupState = "Exited")

\* C2: the lines delivered to the consumer are, at every moment, a prefix of
\* the lines the child has written so far (same order, none repeated, none
\* skipped).  The empty end-of-stream value is not a line.
C2_DeliveredPrefixOfWritten ==
    IsPrefix(SelectSeq(delivered, IsLine), WrittenLines)

\* two different lines were delivered, and a third is written but not yet read
C2_Witness ==
    /\ Len(delivered) >= 2
    /\ IsLine(delivered[1]) /\ IsLine(delivered[2])
    /\ delivered[1] # delivered[2]
    /\ Len(WrittenLines) > Len(delivered)

\* C3: once the child has closed its output the run loop eventually ends
\* (Exited; or it was stopped or failed first) instead of reading on forever.
C3_EofEndsLoop == (child = "closed") ~> (pc \in Terminal)

\* C4: a Supervisor stopped while it awaited a line is Stopped, has requested
\* the child's termination and has released the output stream handle.
C4_StopTerminatesChild ==
    (SupState = "Stopped" /\ child # "none") => (termRequested /\ ~pipeOpen)

\* C5: when the command cannot be started, start fails with LaunchError, the
\* Supervisor is Failed, and no read and no consumer invocation has happened.
C5_LaunchFailureNoLoop ==
    launch \in {"notfound", "oserror"} =>
        /\ SupState = "Failed" /\ error = "LaunchError"
        /\ readlog = << >> /\ delivered = << >>

\* C6: when a read of the child's output fails, the failure leaves run() as
\* an error (it is not swallowed), the Supervisor is Failed from then on, no
\* read comes after the failed one, and the calls the consumer has received
\* stay exactly as they were.
C6_ReadFailureSurfaced ==
    /\ [][(streamExc /\ pc \in {"read", "await"} /\ pc' # pc) =>
            /\ pc' \in {"raised", "cancelled"}
            /\ pc' = "raised" => error' = "StreamReadError"
            /\ delivered' = delivered /\ readlog' = readlog]_vars
    /\ [][SupState = "Failed" =>
            /\ SupState' = "Failed" /\ error' = error
            /\ delivered' = delivered /\ readlog' = readlog]_vars
    /\ [](error # "none" => SupState = "Failed")

\* the stream broke after a line had been delivered, and the read failed
C6_Witness ==
    /\ SupState = "Failed" /\ error = "StreamReadError"
    /\ Len(delivered) >= 1 /\ IsLine(delivered[1])

\* the child is alive, has produced no output, and its stream is intact
SilentChild ==
    /\ launch = "ok" /\ child = "running" /\ written = << >> /\ ~streamExc

\* C7: for a child that never exits and never writes, run() does not end on
\* its own and never calls the consumer; once the first read is issued the
\* loop stays suspended in that one read (only a stop from outside ends it).
C7_SilentChildSuspends ==
    /\ [](SilentChild =>
            /\ pc \in {"read", "await", "cancelled"}
            /\ readlog = << >> /\ delivered = << >>)
    /\ [][(SilentChild /\ SilentChild' /\ pc = "await") =>
            pc' \in {"await", "cancelled"}]_vars

\* the loop is suspended in its first read of a silent child
C7_Witness == SilentChild /\ pc = "await"

\* C8: every end condition (clean exit of the child, read error, launch
\* error) leaves the Supervisor in a terminal state, with no further read or
\* consumer call: the read that met the end of the stream is the last one and
\* its empty value is not handed to the consumer.
C8_EndConditionsTerminal ==
    /\ error # "none" => SupState = "Failed"
    /\ launch = "oserror" => SupState = "Failed"
    /\ (readlog # << >> /\ readlog[Len(readlog)] = EOF) =>
            (SupState \in {"Exited", "Failed", "Stopped"} /\ delivered # readlog)

\* C9: reads and consumer calls alternate: a read returns only when every
\* value read before has been handed to the consumer, a consumer call hands
\* over the one outstanding value, and no more than one value is ever
\* outstanding.
C9_ReadsAndCallsAlternate ==
    /\ [](Len(readlog) - Len(delivered) \in {0, 1})
    /\ [][(pc' = "print" /\ pc # "print") =>
            (pc \in {"read", "await"} /\ delivered = readlog)]_vars
    /\ [][readlog' # readlog => delivered' = delivered]_vars
    /\ [][delivered' # delivered =>
            (pc = "print" /\ readlog' = readlog /\ delivered' = readlog)]_vars

\* a second line has been read while the first is already delivered
C9_Witness ==
    /\ pc = "print" /\ Len(readlog) = 2 /\ Len(delivered) = 1
    /\ IsLine(readlog[1]) /\ IsLine(readlog[2])

\* C10: every value a read returns is given to the consumer once and
\* unchanged: outside the instant between a read and its print the consumer
\* calls are exactly the read results, and in that instant output_str is the
\* value just read and the calls are the read results before it.
C10_ConsumedOnceUnmodified ==
    /\ pc # "print" => delivered = readlog
    /\ pc = "print" =>
        /\ output_str = readlog[Len(readlog)]
        /\ Len(delivered) < MaxLog =>
              delivered = SubSeq(readlog, 1, Len(readlog) - 1)

\* two different lines and the end-of-stream value were read and delivered
C10_Witness ==
    /\ pc = "read" /\ Len(delivered) = 3
    /\ IsLine(delivered[1]) /\ IsLine(delivered[2]) /\ delivered[1] # delivered[2]
    /\ delivered[3] = EOF

\* the lifecycle transitions the state machine lists
ListedTransitions ==
    {<<"NotStarted", "Running">>, <<"Running", "Exited">>,
     <<"Running", "Stopped">>, <<"NotStarted", "Failed">>,
     <<"Running", "Failed">>}

\* every step that changes the Supervisor's state takes a transition of T;
\* Running is entered only from NotStarted by a spawn that returned; a read
\* result or a consumer call appears only in Running
LifecycleWithin(T) ==
    /\ SupState' # SupState => <<SupState, SupState'>> \in T
    /\ (SupState' = "Running" /\ SupState # "Running") =>
          (pc = "spawn" /\ launch' \in {"ok", "notfound"})
    /\ (readlog' # readlog \/ delivered' # delivered) => SupState = "Running"

\* C11 as stated: the Supervisor takes only the listed transitions (so the
\* terminal states have none going out), Running is entered only by a
\* successful start, and reads and consumer calls happen only in Running.
C11_OnlyListedTransitions == [][LifecycleWithin(ListedTransitions)]_vars

\* C11 as amended: the same, with one more transition, NotStarted -> Stopped,
\* taken when the task is cancelled while the spawn is still awaited.
C11_LifecycleTransitions ==
    [][LifecycleWithin(ListedTransitions \cup {<<"NotStarted", "Stopped">>})]_vars

\* the Supervisor was stopped before its start had completed
C11_Witness == SupState = "Stopped" /\ launch = "pending" /\ child = "none"

\* C13: run() never returns: it is never past its loop, and when it ends it
\* ends by an exception of the spawn, of the read or of the consumer call,
\* or by cancellation at an await; so asyncio.run(), and main(), never
\* return normally.
C13_NoNormalExit ==
    /\ [](pc # "done")
    /\ [][(pc' \in Terminal /\ pc \notin Terminal) =>
            \/ pc = "spawn" /\ pc' = "raised" /\ error' = "LaunchError"
            \/ pc \in {"read", "await"} /\ pc' = "raised" /\ error' = "StreamReadError"
            \/ pc = "print" /\ pc' = "raised" /\ error' = "ConsumerError"
            \/ pc \in {"spawn", "await"} /\ pc' = "cancelled" /\ error' = "none"]_vars

\* the child has closed its output, the loop has already printed the empty
\* end-of-stream value twice, and run() is back at the read
C13_Witness ==
    /\ child = "closed" /\ pc = "read" /\ Len(delivered) >= 2
    /\ delivered[Len(delivered)] = EOF /\ delivered[Len(delivered) - 1] = EOF

RECURSIVE Flatten(_)
\* the bytes of a sequence of read values, in order
Flatten(h) == IF h = << >> THEN << >> ELSE Head(h) \o Flatten(Tail(h))

C14_SoleReaderAndTerminator ==
    /\ [](Flatten(readlog) \o buffer = written)
    /\ [][~IsPrefix(buffer, buffer') =>
            (pc \in {"read", "await"} /\ pc' = "print" /\ otherSteps' = otherSteps)]_vars
    /\ [][(termRequested' /\ ~termRequested) => SupState' = "Stopped"]_vars
    /\ [][child' # child =>
            (pc' = pc /\ otherSteps' = otherSteps /\ ~termRequested') \/ pc = "spawn"]_vars

\* two lines were read, a third is written and unread, the child has closed
\* its output itself, and other work has run meanwhile
C14_Witness ==
    /\ Len(readlog) = 2 /\ IsLine(readlog[1]) /\ IsLine(readlog[2])
    /\ FirstNL(buffer, 1) > 0 /\ child = "closed" /\ otherSteps > 0

====
